---- MODULE Spec2Model ----
(***************************************************************************)
(* Model of examples/deadline/All-In-AWS-Infrastructure-Basic/python/     *)
(* package/config.py: the AppConfig class, whose only method is __init__, *)
(* and the module-level binding  config = AppConfig().                    *)
(*                                                                         *)
(* AppConfig is a plain Python class: it defines no __slots__, no         *)
(* property, no __getattr__ / __setattr__.  Its instances are therefore   *)
(* ordinary attribute dictionaries, read with  obj.name  and written with *)
(* obj.name = value.  Two of the attributes hold mutable containers (a    *)
(* dict and a list), which are objects with their own identity; they are  *)
(* modelled as references into a heap so that aliasing is observable.     *)
(***************************************************************************)
EXTENDS Naturals, Sequences, FiniteSets

VARIABLES
    instances,  \* heap of AppConfig objects: Seq of (attribute name -> value)
    dicts,      \* heap of dict objects: Seq of (key value -> value)
    lists,      \* heap of list objects: Seq of Seq of license descriptors
    config,     \* the module global  config  (Unbound before the module body ran)
    outcome,    \* what the last operation returned or raised
    nwrites     \* number of writes performed so far (capped by MaxWrites)

vars == <<instances, dicts, lists, config, outcome, nwrites>>

----------------------------------------------------------------------------
(* Bounds of the model.                                                    *)

\* AppConfig objects that may exist at once (the module's own plus callers').
MaxInstances == 2

\* Writes (attribute assignments, dict item stores, list appends) in one run.
MaxWrites == 2

----------------------------------------------------------------------------
(* Python values.  Every value carries its runtime type.                   *)

Str(s)  == [t |-> "str", s |-> s]
Bool(b) == [t |-> "bool", b |-> b]
NoneVal == [t |-> "NoneType"]
Unbound == [t |-> "unbound"]

\* A member of the enumeration aws_rfdk.MongoDbSsplLicenseAcceptance.
MongoDbSsplLicenseAcceptance(m) == [t |-> "MongoDbSsplLicenseAcceptance", m |-> m]

USER_REJECTS_SSPL == MongoDbSsplLicenseAcceptance("USER_REJECTS_SSPL")
USER_ACCEPTS_SSPL == MongoDbSsplLicenseAcceptance("USER_ACCEPTS_SSPL")

\* References to heap objects.
DictRef(id) == [t |-> "dict", id |-> id]
ListRef(id) == [t |-> "list", id |-> id]
InstRef(id) == [t |-> "AppConfig", id |-> id]

----------------------------------------------------------------------------
(* class AppConfig                                                         *)

\* The attributes __init__ assigns, in the order it assigns them.
Fields ==
    << "deadline_client_linux_ami_map",
       "ubl_certificate_secret_arn",
       "ubl_licenses",
       "key_pair_name",
       "deploy_mongo_db",
       "accept_sspl_license" >>

FieldNames == { Fields[n] : n \in 1..Len(Fields) }

\* The literals on the right-hand sides of __init__'s assignments.
\* Variant: the placeholder entry left out of the dict display.
default_deadline_client_linux_ami_map_Empty == << >>

default_deadline_client_linux_ami_map == [k \in {Str("region")} |-> Str("ami-id")]

default_ubl_certificate_secret_arn == Str("")

\* Variant: a license left in the list display.
default_ubl_licenses_Maya == << [t |-> "UsageBasedLicense", name |-> "maya"] >>

default_ubl_licenses == << >>

\* Variant: the optional attribute initialised to None.
default_key_pair_name_None == NoneVal

default_key_pair_name == Str("")

\* Variant: MongoDB selected by default.
default_deploy_mongo_db_True == Bool(TRUE)

default_deploy_mongo_db == Bool(FALSE)

\* Variant: the SSPL accepted by default.
default_accept_sspl_license_Accepts == USER_ACCEPTS_SSPL

default_accept_sspl_license == USER_REJECTS_SSPL

\* Variant: the last assignment misses its  self.  prefix, so it binds a local
\* name and the instance never gets the attribute.
AppConfigAttrs_NoSelfOnLast(amiMap, licenses) ==
    [f \in FieldNames \ {"accept_sspl_license"} |->
        CASE f = "deadline_client_linux_ami_map" -> amiMap
          [] f = "ubl_certificate_secret_arn"    -> default_ubl_certificate_secret_arn
          [] f = "ubl_licenses"                  -> licenses
          [] f = "key_pair_name"                 -> default_key_pair_name
          [] f = "deploy_mongo_db"               -> default_deploy_mongo_db]

\* The attribute dictionary of an instance once __init__ has returned, given
\* the dict object and the list object its two container literals evaluated to.
AppConfigAttrs(amiMap, licenses) ==
    [f \in FieldNames |->
        CASE f = "deadline_client_linux_ami_map" -> amiMap
          [] f = "ubl_certificate_secret_arn"    -> default_ubl_certificate_secret_arn
          [] f = "ubl_licenses"                  -> licenses
          [] f = "key_pair_name"                 -> default_key_pair_name
          [] f = "deploy_mongo_db"               -> default_deploy_mongo_db
          [] f = "accept_sspl_license"           -> default_accept_sspl_license]

\* A heap: the three object stores together.
Heap == [instances |-> instances, dicts |-> dicts, lists |-> lists]

\* Variant: the two containers are created once (as class attributes or as
\* default arguments would be) and every instance refers to the same objects.
AppConfigInit_SharedContainers(h) ==
    IF Len(h.dicts) = 0
        THEN [instances |-> Append(h.instances, AppConfigAttrs(DictRef(1), ListRef(1))),
              dicts     |-> Append(h.dicts, default_deadline_client_linux_ami_map),
              lists     |-> Append(h.lists, default_ubl_licenses)]
        ELSE [instances |-> Append(h.instances, AppConfigAttrs(DictRef(1), ListRef(1))),
              dicts     |-> h.dicts,
              lists     |-> h.lists]

\* AppConfig(): evaluating the dict display {'region': 'ami-id'} and the list
\* display [] creates one new dict and one new list on every call; the new
\* instance is the last object of the resulting heap.
AppConfigInit(h) ==
    LET d == Len(h.dicts) + 1
        l == Len(h.lists) + 1
    IN  [instances |-> Append(h.instances, AppConfigAttrs(DictRef(d), ListRef(l))),
         dicts     |-> Append(h.dicts, default_deadline_client_linux_ami_map),
         lists     |-> Append(h.lists, default_ubl_licenses)]

----------------------------------------------------------------------------
(* Attribute access on an AppConfig object.  The class overrides neither   *)
(* attribute lookup nor attribute assignment, so both are the interpreter's *)
(* defaults on the attribute dictionary.                                   *)

\* Variant: a validating accessor that raises on an unset (empty) string.
GetAttr_RejectsEmpty(obj, f) ==
    IF f \in DOMAIN obj /\ obj[f] # Str("")
        THEN [ok |-> TRUE,  val |-> obj[f]]
        ELSE [ok |-> FALSE, val |-> Str("AttributeError")]

\* obj.f : the attribute's value, or AttributeError when f was never assigned.
GetAttr(obj, f) ==
    IF f \in DOMAIN obj
        THEN [ok |-> TRUE,  val |-> obj[f]]
        ELSE [ok |-> FALSE, val |-> Str("AttributeError")]

\* Variant: a validating setter that refuses to select MongoDB while the SSPL
\* is rejected.
SetAttr_ChecksSspl(obj, f, v) ==
    IF f = "deploy_mongo_db" /\ v = Bool(TRUE)
          /\ obj["accept_sspl_license"] # USER_ACCEPTS_SSPL
        THEN [ok |-> FALSE, obj |-> obj]
        ELSE [ok |-> TRUE,
              obj |-> [g \in DOMAIN obj \cup {f} |-> IF g = f THEN v ELSE obj[g]]]

\* obj.f = v : always stores; no validation, no type check, no coupling
\* between attributes.
SetAttr(obj, f, v) ==
    [ok |-> TRUE, obj |-> [g \in DOMAIN obj \cup {f} |-> IF g = f THEN v ELSE obj[g]]]

\* d[k] = v on a dict object.
DictSetItem(d, k, v) == [x \in DOMAIN d \cup {k} |-> IF x = k THEN v ELSE d[x]]

\* The value of instance i as a consumer sees it: every attribute, with the
\* containers replaced by their current contents.
Deref(v) ==
    CASE v.t = "dict" -> [t |-> "dict", items |-> dicts[v.id]]
      [] v.t = "list" -> [t |-> "list", elems |-> lists[v.id]]
      [] OTHER        -> v

Snapshot(i) == [f \in DOMAIN instances[i] |-> Deref(instances[i][f])]

----------------------------------------------------------------------------
(* Inputs.                                                                 *)

\* Values a deployer may assign to each attribute.  Python checks none of
\* the annotations: None is assignable to the optional key_pair_name and just
\* as well to accept_sspl_license.
AssignableValues(f) ==
    CASE f = "ubl_certificate_secret_arn" ->
            {Str(""), Str("arn:aws:secretsmanager:ubl")}
      [] f = "key_pair_name"  -> {Str(""), Str("my-key-pair"), NoneVal}
      [] f = "deploy_mongo_db" -> {Bool(TRUE), Bool(FALSE)}
      [] f = "accept_sspl_license" -> {USER_ACCEPTS_SSPL, USER_REJECTS_SSPL, NoneVal}
      [] OTHER -> {}

ScalarFields ==
    {"ubl_certificate_secret_arn", "key_pair_name", "deploy_mongo_db", "accept_sspl_license"}

AmiKeys == {Str("region"), Str("us-west-2")}
AmiValues == {Str("ami-0123456789abcdef0")}
Licenses == {[t |-> "UsageBasedLicense", name |-> "maya"]}

----------------------------------------------------------------------------
(* Operations.                                                             *)

Init ==
    /\ instances = << >>
    /\ dicts = << >>
    /\ lists = << >>
    /\ config = Unbound
    /\ outcome = [op |-> "none", ok |-> TRUE, target |-> 0, val |-> NoneVal]
    /\ nwrites = 0

\* Variant: line 45 without the call parentheses binds the class, not an
\* instance, and constructs nothing.
LoadModule_BindsClass ==
    /\ config = Unbound
    /\ config' = [t |-> "type", id |-> 0]
    /\ outcome' = [op |-> "load", ok |-> TRUE, target |-> 0, val |-> NoneVal]
    /\ UNCHANGED <<instances, dicts, lists, nwrites>>

\* Importing the module runs its body once: line 45 constructs one AppConfig
\* and binds it to the global name config.
LoadModule ==
    /\ config = Unbound
    /\ LET h == AppConfigInit(Heap)
       IN  /\ instances' = h.instances
           /\ dicts' = h.dicts
           /\ lists' = h.lists
           /\ config' = InstRef(Len(h.instances))
           /\ outcome' = [op |-> "load", ok |-> TRUE, target |-> Len(h.instances),
                          val |-> InstRef(Len(h.instances))]
    /\ UNCHANGED nwrites

\* A consumer of the module calls AppConfig() itself.
Construct ==
    /\ config # Unbound
    /\ Len(instances) < MaxInstances
    /\ LET h == AppConfigInit(Heap)
       IN  /\ instances' = h.instances
           /\ dicts' = h.dicts
           /\ lists' = h.lists
           /\ outcome' = [op |-> "construct", ok |-> TRUE, target |-> Len(h.instances),
                          val |-> InstRef(Len(h.instances))]
    /\ UNCHANGED <<config, nwrites>>

\* x = obj.f
ReadField(i, f) ==
    /\ LET r == GetAttr(instances[i], f)
       IN  outcome' = [op |-> "getattr", ok |-> r.ok, target |-> i, val |-> r.val]
    /\ UNCHANGED <<instances, dicts, lists, config, nwrites>>

\* obj.f = v, for a scalar v
AssignField(i, f, v) ==
    /\ nwrites < MaxWrites
    /\ LET r == SetAttr(instances[i], f, v)
       IN  /\ instances' = [instances EXCEPT ![i] = r.obj]
           /\ outcome' = [op |-> "setattr", ok |-> r.ok, target |-> i, val |-> NoneVal]
    /\ nwrites' = nwrites + 1
    /\ UNCHANGED <<dicts, lists, config>>

\* obj.deadline_client_linux_ami_map = {}
AssignNewDict(i) ==
    /\ nwrites < MaxWrites
    /\ dicts' = Append(dicts, << >>)
    /\ LET r == SetAttr(instances[i], "deadline_client_linux_ami_map", DictRef(Len(dicts) + 1))
       IN  /\ instances' = [instances EXCEPT ![i] = r.obj]
           /\ outcome' = [op |-> "setattr", ok |-> r.ok, target |-> i, val |-> NoneVal]
    /\ nwrites' = nwrites + 1
    /\ UNCHANGED <<lists, config>>

\* obj.ubl_licenses = []
AssignNewList(i) ==
    /\ nwrites < MaxWrites
    /\ lists' = Append(lists, << >>)
    /\ LET r == SetAttr(instances[i], "ubl_licenses", ListRef(Len(lists) + 1))
       IN  /\ instances' = [instances EXCEPT ![i] = r.obj]
           /\ outcome' = [op |-> "setattr", ok |-> r.ok, target |-> i, val |-> NoneVal]
    /\ nwrites' = nwrites + 1
    /\ UNCHANGED <<dicts, config>>

\* obj.deadline_client_linux_ami_map[k] = v
AmiMapSetItem(i, k, v) ==
    /\ nwrites < MaxWrites
    /\ LET r == GetAttr(instances[i], "deadline_client_linux_ami_map")
       IN  /\ r.ok
           /\ dicts' = [dicts EXCEPT ![r.val.id] = DictSetItem(@, k, v)]
    /\ outcome' = [op |-> "setitem", ok |-> TRUE, target |-> i, val |-> NoneVal]
    /\ nwrites' = nwrites + 1
    /\ UNCHANGED <<instances, lists, config>>

\* obj.ubl_licenses.append(x)
UblLicensesAppend(i, x) ==
    /\ nwrites < MaxWrites
    /\ LET r == GetAttr(instances[i], "ubl_licenses")
       IN  /\ r.ok
           /\ lists' = [lists EXCEPT ![r.val.id] = Append(@, x)]
    /\ outcome' = [op |-> "append", ok |-> TRUE, target |-> i, val |-> NoneVal]
    /\ nwrites' = nwrites + 1
    /\ UNCHANGED <<instances, dicts, config>>

Next ==
    \/ LoadModule
    \/ Construct
    \/ \E i \in DOMAIN instances, f \in FieldNames : ReadField(i, f)
    \/ \E i \in DOMAIN instances, f \in ScalarFields :
          \E v \in AssignableValues(f) : AssignField(i, f, v)
    \/ \E i \in DOMAIN instances : AssignNewDict(i)
    \/ \E i \in DOMAIN instances : AssignNewList(i)
    \/ \E i \in DOMAIN instances, k \in AmiKeys, v \in AmiValues : AmiMapSetItem(i, k, v)
    \/ \E i \in DOMAIN instances, x \in Licenses : UblLicensesAppend(i, x)

Spec == Init /\ [][Next]_vars

----------------------------------------------------------------------------
(* Properties.                                                             *)

\* Instance i is as its constructor left it: either it is the object the last
\* operation constructed, or nothing has been written since the start.
Pristine(i) ==
    \/ outcome.op \in {"load", "construct"} /\ outcome.target = i
    \/ nwrites = 0

\* Operations that write to the instance named by outcome.target.
WriteOps == {"setattr", "setitem", "append"}

\* What the documentation promises of a fresh instance, written out.
ExpectedDefaults ==
    [f \in FieldNames |->
        CASE f = "deadline_client_linux_ami_map" ->
                [t |-> "dict", items |-> [k \in {Str("region")} |-> Str("ami-id")]]
          [] f = "ubl_certificate_secret_arn" -> Str("")
          [] f = "ubl_licenses"    -> [t |-> "list", elems |-> << >>]
          [] f = "key_pair_name"   -> Str("")
          [] f = "deploy_mongo_db" -> Bool(FALSE)
          [] f = "accept_sspl_license" ->
                [t |-> "MongoDbSsplLicenseAcceptance", m |-> "USER_REJECTS_SSPL"]]

\* C1: right after construction an instance has all six attributes, each of
\* its documented type: a str-to-str dict, a str, a list (of licenses), a str
\* or None, a bool, and a member of MongoDbSsplLicenseAcceptance.
C1_FieldsAndTypes ==
    \A i \in DOMAIN instances : Pristine(i) =>
        LET o == instances[i] IN
        /\ \A f \in FieldNames : GetAttr(o, f).ok
        /\ LET m == GetAttr(o, "deadline_client_linux_ami_map").val IN
              /\ m.t = "dict"
              /\ m.id \in DOMAIN dicts
              /\ \A k \in DOMAIN dicts[m.id] : k.t = "str" /\ dicts[m.id][k].t = "str"
        /\ GetAttr(o, "ubl_certificate_secret_arn").val.t = "str"
        /\ LET l == GetAttr(o, "ubl_licenses").val IN
              /\ l.t = "list"
              /\ l.id \in DOMAIN lists
              /\ \A n \in DOMAIN lists[l.id] : lists[l.id][n].t = "UsageBasedLicense"
        /\ GetAttr(o, "key_pair_name").val.t \in {"str", "NoneType"}
        /\ GetAttr(o, "deploy_mongo_db").val.t = "bool"
        /\ GetAttr(o, "accept_sspl_license").val \in {USER_ACCEPTS_SSPL, USER_REJECTS_SSPL}

C1_Witness ==
    /\ outcome.op = "construct"
    /\ outcome.target = 2
    /\ nwrites = 1
    /\ DOMAIN instances[2] = FieldNames

\* C2: a fresh instance has deploy_mongo_db = False.
C2_DeployMongoDbFalse ==
    \A i \in DOMAIN instances : Pristine(i) =>
        GetAttr(instances[i], "deploy_mongo_db") = [ok |-> TRUE, val |-> Bool(FALSE)]

C2_Witness ==
    /\ outcome.op = "load"
    /\ instances[config.id]["deploy_mongo_db"] = Bool(FALSE)

\* C3: a fresh instance has accept_sspl_license = USER_REJECTS_SSPL, never
\* USER_ACCEPTS_SSPL.
C3_SsplRejected ==
    \A i \in DOMAIN instances : Pristine(i) =>
        LET r == GetAttr(instances[i], "accept_sspl_license") IN
        /\ r.ok
        /\ r.val = [t |-> "MongoDbSsplLicenseAcceptance", m |-> "USER_REJECTS_SSPL"]
        /\ r.val # [t |-> "MongoDbSsplLicenseAcceptance", m |-> "USER_ACCEPTS_SSPL"]

C3_Witness ==
    /\ outcome.op = "load"
    /\ instances[config.id]["accept_sspl_license"].m = "USER_REJECTS_SSPL"

\* C4: the deadline_client_linux_ami_map of a fresh instance has exactly one
\* entry, 'region' -> 'ami-id'.
C4_OnePlaceholderAmi ==
    \A i \in DOMAIN instances : Pristine(i) =>
        LET r == GetAttr(instances[i], "deadline_client_linux_ami_map") IN
        /\ r.ok
        /\ r.val.t = "dict"
        /\ Cardinality(DOMAIN dicts[r.val.id]) = 1
        /\ DOMAIN dicts[r.val.id] = {Str("region")}
        /\ dicts[r.val.id][Str("region")] = Str("ami-id")

\* A second instance built after the first one's map got a second entry.
C4_Witness ==
    /\ outcome.op = "construct"
    /\ outcome.target = 2
    /\ Cardinality(DOMAIN Snapshot(1)["deadline_client_linux_ami_map"].items) = 2
    /\ Cardinality(DOMAIN Snapshot(2)["deadline_client_linux_ami_map"].items) = 1

\* C5: the ubl_licenses of a fresh instance is the empty list.
C5_NoLicenses ==
    \A i \in DOMAIN instances : Pristine(i) =>
        LET r == GetAttr(instances[i], "ubl_licenses") IN
        /\ r.ok
        /\ r.val.t = "list"
        /\ Len(lists[r.val.id]) = 0

\* A second instance built after a license was appended to the first one's list.
C5_Witness ==
    /\ outcome.op = "construct"
    /\ outcome.target = 2
    /\ Len(Snapshot(1)["ubl_licenses"].elems) = 1
    /\ Len(Snapshot(2)["ubl_licenses"].elems) = 0

\* C6: reading an attribute of an instance never raises, returns the value
\* the instance holds, and changes no object: every attribute of every
\* instance, and the contents of every dict and list, stay as they were.
C6_ReadsAreSafe ==
    [][outcome'.op = "getattr" =>
          /\ outcome'.ok
          /\ \E f \in FieldNames : outcome'.val = instances[outcome'.target][f]
          /\ instances' = instances
          /\ dicts' = dicts
          /\ lists' = lists
          /\ config' = config]_vars

\* A read of the empty secret ARN of an untouched instance, after an earlier read.
C6_Witness ==
    /\ outcome = [op |-> "getattr", ok |-> TRUE, target |-> 1, val |-> Str("")]
    /\ nwrites = 0
    /\ Snapshot(1) = ExpectedDefaults

\* C7: loading the module constructs exactly one instance, with the
\* placeholder defaults, and binds config to it; afterwards config is never
\* rebound and the instance it names is never removed.
C7_OneConfigForever ==
    [][/\ (config = Unbound /\ config' # Unbound) =>
              /\ Len(instances') = Len(instances) + 1
              /\ config' = InstRef(Len(instances'))
              /\ \A n \in DOMAIN instances' : Snapshot(n)' = ExpectedDefaults
       /\ config # Unbound =>
              /\ config' = config
              /\ config.t = "AppConfig"
              /\ config.id \in DOMAIN instances'
              /\ Len(instances') >= Len(instances)]_vars

\* config still names the first instance after a consumer built its own and
\* wrote to it.
C7_Witness ==
    /\ config = InstRef(1)
    /\ Len(instances) = 2
    /\ outcome.op \in WriteOps
    /\ outcome.target = 2

\* C8: the two flags are independent: from every reachable state every
\* combination of deploy_mongo_db and accept_sspl_license can be assigned, in
\* either order, and no assignment that was made failed.
C8_FlagsIndependent ==
    /\ outcome.op = "setattr" => outcome.ok
    /\ \A i \in DOMAIN instances :
       \A d \in {Bool(TRUE), Bool(FALSE)} :
       \A a \in {USER_ACCEPTS_SSPL, USER_REJECTS_SSPL} :
          LET r1 == SetAttr(instances[i], "deploy_mongo_db", d)
              r2 == SetAttr(r1.obj, "accept_sspl_license", a)
              q1 == SetAttr(instances[i], "accept_sspl_license", a)
              q2 == SetAttr(q1.obj, "deploy_mongo_db", d)
          IN  /\ r1.ok /\ r2.ok /\ q1.ok /\ q2.ok
              /\ r2.obj = q2.obj
              /\ r2.obj["deploy_mongo_db"] = d
              /\ r2.obj["accept_sspl_license"] = a
              /\ \A f \in FieldNames \ {"deploy_mongo_db", "accept_sspl_license"} :
                    r2.obj[f] = instances[i][f]

\* MongoDB selected while the SSPL is rejected.
C8_Witness ==
    /\ outcome.op = "setattr"
    /\ outcome.ok
    /\ instances[config.id]["deploy_mongo_db"] = Bool(TRUE)
    /\ instances[config.id]["accept_sspl_license"] = USER_REJECTS_SSPL

\* The other three combinations.
C8_Reach_TrueAccepted ==
    /\ config # Unbound
    /\ instances[config.id]["deploy_mongo_db"] = Bool(TRUE)
    /\ instances[config.id]["accept_sspl_license"] = USER_ACCEPTS_SSPL

C8_Reach_FalseAccepted ==
    /\ config # Unbound
    /\ instances[config.id]["deploy_mongo_db"] = Bool(FALSE)
    /\ instances[config.id]["accept_sspl_license"] = USER_ACCEPTS_SSPL

C8_Reach_FalseRejected ==
    /\ outcome.op = "setattr"
    /\ instances[config.id]["deploy_mongo_db"] = Bool(FALSE)
    /\ instances[config.id]["accept_sspl_license"] = USER_REJECTS_SSPL

\* C9: no two instances refer to the same dict or the same list, and a write
\* to one instance (an assignment, a map entry, an appended license) leaves
\* every attribute of every other instance as it was.
C9_InstancesIndependent ==
    [][/\ \A i, j \in DOMAIN instances' : i # j =>
              /\ instances'[i]["deadline_client_linux_ami_map"]
                    # instances'[j]["deadline_client_linux_ami_map"]
              /\ instances'[i]["ubl_licenses"] # instances'[j]["ubl_licenses"]
       /\ outcome'.op \in WriteOps =>
              \A j \in DOMAIN instances \ {outcome'.target} :
                  Snapshot(j)' = Snapshot(j)]_vars

\* The first instance's map and list both grew; the second is untouched.
C9_Witness ==
    /\ Len(instances) = 2
    /\ Cardinality(DOMAIN Snapshot(1)["deadline_client_linux_ami_map"].items) = 2
    /\ Len(Snapshot(1)["ubl_licenses"].elems) = 1
    /\ Snapshot(2) = ExpectedDefaults

\* C10: a fresh instance has ubl_certificate_secret_arn = '' and
\* key_pair_name = '', the latter a str and not None.
C10_EmptyStrings ==
    \A i \in DOMAIN instances : Pristine(i) =>
        /\ GetAttr(instances[i], "ubl_certificate_secret_arn") = [ok |-> TRUE, val |-> Str("")]
        /\ GetAttr(instances[i], "key_pair_name") = [ok |-> TRUE, val |-> Str("")]
        /\ GetAttr(instances[i], "key_pair_name").val # NoneVal

C10_Witness ==
    /\ outcome.op = "construct"
    /\ outcome.target = 2
    /\ instances[1]["key_pair_name"] = NoneVal
    /\ instances[2]["key_pair_name"] = Str("")

====
